---- MODULE Spec2Model ----
(***************************************************************************)
(* Model of ui_automation: ConfigLoader (core/config_loader.py) and        *)
(* DataLoader (utils/data_loader.py).                                      *)
(*                                                                         *)
(* Strings built with "_" are modelled as token sequences: the name "a_b"  *)
(* is <<"a","b">> and f"{x}_{y}" is x \o y, so two different pairs whose   *)
(* formatted strings coincide also coincide in the model.                  *)
(***************************************************************************)
EXTENDS Integers, Sequences, FiniteSets, TLC

\* ---------------------------------------------------------------- bounds
MaxCalls == 2
MaxFsOps == 1

\* ------------------------------------------------------- ConfigLoader data
Default == <<"default">>
Names == {<<"browser">>}
Envs == {Default, <<"dev">>}
Pairs == Names \X Envs

\* f"{config_name}_{environment}"
Key(config_name, environment) == config_name \o environment

Exts == <<"yaml", "yml", "json">>
Bases == {Key(p[1], p[2]) : p \in Pairs} \cup Names
Files == {<<b, Exts[i]>> : b \in Bases, i \in 1..3}

\* The names the accessors and main() ask for, next to the ones above
BrowserConfigName == <<"browser">>
TestConfigNameWrong == <<"browser">>
TestConfigName == <<"test">>
EnvironmentConfigName == <<"environment">>
AllNames == Names \cup {BrowserConfigName, TestConfigName, EnvironmentConfigName}
NamedPairs == AllNames \X Envs
\* Pairs whose "{name}_{environment}" strings coincide: ("a_b", "c") and
\* ("a", "b_c") both give "a_b_c"; ("a", "c") shares the name of one and
\* the environment of the other
KeyPairs ==
  {<<<<"a", "b">>, <<"c">>>>, <<<<"a">>, <<"b", "c">>>>, <<<<"a">>, <<"c">>>>}
AllPairs == NamedPairs \cup KeyPairs
AllBases == {Key(p[1], p[2]) : p \in AllPairs} \cup {p[1] : p \in AllPairs}
AllFiles == {<<b, Exts[i]>> : b \in AllBases, i \in 1..3}

\* What a file of the configuration directory holds.  Absent: no such file.
\* Bad: text that is not well-formed in the file's format.  Null: a document
\* that parses to None (an empty YAML file, "null").  M1..M3: mappings
\* (M1 has base_url set to a string, M2 has no base_url, M3 has base_url
\* set to null).  L1: a well-formed document that is a list.
Absent == "Absent"
Bad == "Bad"
Null == "Null"
Mappings == {"M1", "M2", "M3"}
Lists == {"L1"}
Contents == {Bad, Null} \cup Mappings \cup Lists

\* Results of the private loaders
None == "None"
ParseError == "ParseError"

\* ConfigLoader: the directory, the instance's cache, the objects the
\* parsers created, and the record of the calls made
VARIABLES fs, config_cache, heap, reads, calls, fsOps, last, loaded

\* DataLoader.load_test_data: the file given, the position in the call and
\* its locals, and the outcome delivered to the caller
VARIABLES dfile, dpc, data, keys, result, idx, dout

\* The accessor through which load_config was entered, and what
\* get_environment_url delivered
VARIABLES api, url

\* DataLoader's public loaders on a data directory: the directory, the call
\* made, its outcome and the paths it touched
VARIABLES ddir, fcall, fout, facc

\* main(): its position, the parsed arguments, what it did so far and how
\* it ended
VARIABLES mpc, margs, mtrace, mexit

\* Two threads inside load_config for the same pair: each one's position,
\* locals and outcome
VARIABLES rpc, rlocal, rret

\* ElementHelper's checkbox calls: each checkbox's selected state, the
\* clicks it received, and the calls made
VARIABLES selected, clicks, cbtrace

\* The root logger: its handlers, the number of setup_logging calls and the
\* last of them
VARIABLES handlers, lcalls, llast

\* HtmlReporter.generate_report: the mapping as the caller built it, the
\* mapping as it is now, the calls made, the last of them and the report
\* files written
VARIABLES hgiven, hresults, hcalls, hlast, hfiles

cvars == <<fs, config_cache, heap, reads, calls, fsOps, last, loaded>>
dvars == <<dfile, dpc, data, keys, result, idx, dout>>
avars == <<api, url>>
nvars == <<ddir, fcall, fout, facc>>
mvars == <<mpc, margs, mtrace, mexit>>
rvars == <<rpc, rlocal, rret>>
kvars == <<selected, clicks, cbtrace>>
lvars == <<handlers, lcalls, llast>>
hvars == <<hgiven, hresults, hcalls, hlast, hfiles>>
xvars == <<kvars, lvars, hvars>>
vars == <<cvars, dvars, avars, nvars, mvars, rvars, xvars>>

\* os.path.exists(path)
Exists(f, file) == f[file] # Absent

\* yaml.safe_load(file) inside _load_yaml: a malformed file raises, an empty
\* document gives None, otherwise the parsed object
LoadYaml(content) ==
  IF content = Bad THEN ParseError
  ELSE IF content = Null THEN None
  ELSE content

\* json.load(file) inside _load_json
LoadJson(content) ==
  IF content = Bad THEN ParseError
  ELSE IF content = Null THEN None
  ELSE content

TryLoadConfigJsonFirst(f, base) ==
  LET yaml_path == <<base, "yaml">>
      yml_path == <<base, "yml">>
      json_path == <<base, "json">>
  IN IF Exists(f, json_path)
       THEN [checked |-> <<json_path>>, opened |-> <<json_path>>,
             data |-> LoadJson(f[json_path])]
     ELSE IF Exists(f, yaml_path)
       THEN [checked |-> <<json_path, yaml_path>>, opened |-> <<yaml_path>>,
             data |-> LoadYaml(f[yaml_path])]
     ELSE IF Exists(f, yml_path)
       THEN [checked |-> <<json_path, yaml_path, yml_path>>,
             opened |-> <<yml_path>>, data |-> LoadYaml(f[yml_path])]
     ELSE [checked |-> <<json_path, yaml_path, yml_path>>,
           opened |-> <<>>, data |-> None]

\* _try_load_config: the paths tested with os.path.exists, the path opened
\* (at most one) and what the loader gave (None when nothing exists)
TryLoadConfig(f, base) ==
  LET yaml_path == <<base, "yaml">>
      yml_path == <<base, "yml">>
      json_path == <<base, "json">>
  IN IF Exists(f, yaml_path)
       THEN [checked |-> <<yaml_path>>, opened |-> <<yaml_path>>,
             data |-> LoadYaml(f[yaml_path])]
     ELSE IF Exists(f, yml_path)
       THEN [checked |-> <<yaml_path, yml_path>>, opened |-> <<yml_path>>,
             data |-> LoadYaml(f[yml_path])]
     ELSE IF Exists(f, json_path)
       THEN [checked |-> <<yaml_path, yml_path, json_path>>,
             opened |-> <<json_path>>, data |-> LoadJson(f[json_path])]
     ELSE [checked |-> <<yaml_path, yml_path, json_path>>,
           opened |-> <<>>, data |-> None]

InCacheNever(key, cache) == FALSE
InCacheUnlessSpecific(key, cache) ==
  /\ key \in DOMAIN cache
  /\ \A i \in 1..3 : ~Exists(fs, <<key, Exts[i]>>)
\* cache_key in self.config_cache
InCache(key, cache) == key \in DOMAIN cache

\* Variants of the resolution: one that takes a parse failure of the first
\* tier for a missing file, one that falls back for "default" as well
ResolveThroughErrors(f, config_name, environment) ==
  LET t1 == TryLoadConfig(f, Key(config_name, environment))
      t2 == TryLoadConfig(f, config_name)
  IN IF t1.data \in {None, ParseError} /\ environment # Default
       THEN [checked |-> t1.checked \o t2.checked,
             opened |-> t1.opened \o t2.opened, data |-> t2.data]
     ELSE t1
ResolveAlwaysFallback(f, config_name, environment) ==
  LET t1 == TryLoadConfig(f, Key(config_name, environment))
      t2 == TryLoadConfig(f, config_name)
  IN IF t1.data = ParseError THEN t1
     ELSE IF t1.data = None
       THEN [checked |-> t1.checked \o t2.checked,
             opened |-> t1.opened \o t2.opened, data |-> t2.data]
     ELSE t1
\* Lines 43-51 of load_config: the uncached resolution.  A parse failure of
\* the first tier propagates before the second tier is looked at.
Resolve(f, config_name, environment) ==
  LET t1 == TryLoadConfig(f, Key(config_name, environment))
      t2 == TryLoadConfig(f, config_name)
  IN IF t1.data = ParseError THEN t1
     ELSE IF t1.data = None /\ environment # Default
       THEN [checked |-> t1.checked \o t2.checked,
             opened |-> t1.opened \o t2.opened, data |-> t2.data]
     ELSE t1

\* f"Configuration file not found for {config_name} ({environment})"
NotFoundMessageNoEnv(config_name, environment) == <<config_name>>
NotFoundMessage(config_name, environment) == <<config_name, environment>>

\* What the exception of a failed parse says of the file: yaml's errors
\* carry a mark naming the stream, json.JSONDecodeError names no file
ParseMessage(path) == IF path[2] = "json" THEN <<>> ELSE path

NoUrl == [kind |-> "none", value |-> "none"]

NoCall == [config_name |-> <<>>, environment |-> <<>>, again |-> FALSE,
           hit |-> FALSE, outcome |-> "none", ref |-> 0, checked |-> <<>>,
           opened |-> <<>>, msg |-> <<>>, logged |-> <<>>]

\* Directories the loader may be constructed over: an empty one, and one per
\* base name holding all three formats with pairwise different mappings.
EmptyDir == [file \in AllFiles |-> Absent]
FullTiers(bases) ==
  [file \in AllFiles |->
     IF file[1] \notin bases THEN Absent
     ELSE IF file[2] = "yaml" THEN "M1"
     ELSE IF file[2] = "yml" THEN "M2"
     ELSE "M3"]
FullTier(base) == FullTiers({base})
InitDirs ==
  {EmptyDir} \cup {FullTier(b) : b \in Bases}
    \cup {FullTiers({Key(p[1], p[2]), p[1]}) : p \in Pairs}

ConfigInit(dirs) ==
  /\ fs \in dirs
  /\ config_cache = <<>>
  /\ heap = <<>>
  /\ reads = [p \in AllPairs |-> 0]
  /\ calls = 0
  /\ fsOps = 0
  /\ last = NoCall
  /\ loaded = <<>>

NoOutcome == [kind |-> "none", value |-> <<>>]
NoFile == [ext |-> "none", doc |-> <<>>]

\* No load_test_data call is under way
DataIdle(file) ==
  /\ dfile = file
  /\ dpc = "call"
  /\ data = <<>>
  /\ keys = <<>>
  /\ result = <<>>
  /\ idx = 0
  /\ dout = NoOutcome

\* No accessor has been called
AccessIdle ==
  /\ api = "none"
  /\ url = NoUrl

NoDir == <<>>
\* No public loader of DataLoader has been called
FilesIdle(dir) ==
  /\ ddir = dir
  /\ fcall = [fn |-> "none", name |-> <<>>]
  /\ fout = [kind |-> "none", loader |-> "none", path |-> <<>>,
             content |-> "none", tuples |-> <<>>, msg |-> <<>>]
  /\ facc = <<>>

NoArgs == [config |-> FALSE, env |-> <<>>, browser |-> "none"]
\* main() is not running
MainIdle(args) ==
  /\ mpc = "off"
  /\ margs = args
  /\ mtrace = <<>>
  /\ mexit = "none"

\* No thread is inside load_config
RaceIdle ==
  /\ rpc = <<>>
  /\ rlocal = <<>>
  /\ rret = <<>>

\* No checkbox, no logging set-up and no report are in play
CheckboxIdle ==
  /\ selected = <<>>
  /\ clicks = <<>>
  /\ cbtrace = <<>>
NoSetup ==
  [log_to_file |-> FALSE, log_level |-> "none", outcome |-> "none",
   removed |-> <<>>]
LoggerIdle ==
  /\ handlers = <<>>
  /\ lcalls = 0
  /\ llast = NoSetup
NoReport == [outcome |-> "none", name |-> <<>>, duration |-> <<>>]
ReporterIdle ==
  /\ hgiven = <<>>
  /\ hresults = <<>>
  /\ hcalls = 0
  /\ hlast = NoReport
  /\ hfiles = {}
OthersIdle == CheckboxIdle /\ LoggerIdle /\ ReporterIdle

Init ==
  /\ ConfigInit(InitDirs)
  /\ DataIdle(NoFile)
  /\ AccessIdle
  /\ FilesIdle(NoDir)
  /\ MainIdle(NoArgs)
  /\ RaceIdle
  /\ OthersIdle

CacheStoreNothing(cache, key, ref) == cache
CacheStoreClearing(cache, key, ref) == (key :> ref)
\* self.config_cache[cache_key] = config_data
CacheStore(cache, key, ref) == (key :> ref) @@ cache

\* The body of ConfigLoader.load_config(config_name, environment)
DoLoadConfig(config_name, environment) ==
  LET cache_key == Key(config_name, environment)
      pair == <<config_name, environment>>
      r == Resolve(fs, config_name, environment)
      call == [config_name |-> config_name, environment |-> environment,
               again |-> pair \in DOMAIN loaded]
  IN /\ calls < MaxCalls
     /\ calls' = calls + 1
     /\ UNCHANGED <<fs, fsOps>>
     /\ IF InCache(cache_key, config_cache)
          THEN /\ last' = call @@ [hit |-> TRUE, outcome |-> "return",
                            ref |-> config_cache[cache_key],
                            checked |-> <<>>, opened |-> <<>>, msg |-> <<>>,
                            logged |-> <<>>]
               /\ loaded' = IF pair \in DOMAIN loaded THEN loaded
                            ELSE loaded @@ (pair :> [ref |-> config_cache[cache_key],
                                                     data |-> heap[config_cache[cache_key]].data,
                                                     from |-> <<>>,
                                                     reads |-> reads[pair]])
               /\ UNCHANGED <<config_cache, heap, reads>>
        ELSE /\ reads' = [reads EXCEPT ![pair] = @ + Len(r.opened)]
             /\ IF r.data = ParseError
                  THEN /\ last' = call @@ [hit |-> FALSE, outcome |-> "ParseError",
                                    ref |-> 0, checked |-> r.checked,
                                    opened |-> r.opened,
                                    msg |-> ParseMessage(r.opened[Len(r.opened)]),
                                    logged |-> r.opened[Len(r.opened)]]
                       /\ UNCHANGED <<config_cache, heap, loaded>>
                ELSE IF r.data = None
                  THEN /\ last' = call @@ [hit |-> FALSE,
                                    outcome |-> "FileNotFoundError",
                                    ref |-> 0, checked |-> r.checked,
                                    opened |-> r.opened,
                                    msg |-> NotFoundMessage(config_name, environment),
                                    logged |-> <<>>]
                       /\ UNCHANGED <<config_cache, heap, loaded>>
                ELSE /\ heap' = Append(heap, [data |-> r.data, touched |-> FALSE])
                     /\ config_cache' = CacheStore(config_cache, cache_key, Len(heap) + 1)
                     /\ last' = call @@ [hit |-> FALSE, outcome |-> "return",
                                  ref |-> Len(heap) + 1, checked |-> r.checked,
                                  opened |-> r.opened, msg |-> <<>>,
                                  logged |-> <<>>]
                     /\ loaded' = IF pair \in DOMAIN loaded THEN loaded
                                  ELSE loaded @@ (pair :> [ref |-> Len(heap) + 1,
                                                           data |-> r.data,
                                                           from |-> r.opened[Len(r.opened)],
                                                           reads |-> reads'[pair]])

\* ConfigLoader.load_config called directly
LoadConfig(config_name, environment) ==
  /\ DoLoadConfig(config_name, environment)
  /\ api' = "load_config"
  /\ url' = NoUrl
  /\ UNCHANGED <<dvars, nvars, mvars, rvars, xvars>>

\* ConfigLoader.get_browser_config(environment)
GetBrowserConfig(environment) ==
  /\ DoLoadConfig(BrowserConfigName, environment)
  /\ api' = "get_browser_config"
  /\ url' = NoUrl
  /\ UNCHANGED <<dvars, nvars, mvars, rvars, xvars>>

\* ConfigLoader.get_test_config(environment)
GetTestConfig(environment) ==
  /\ DoLoadConfig(TestConfigName, environment)
  /\ api' = "get_test_config"
  /\ url' = NoUrl
  /\ UNCHANGED <<dvars, nvars, mvars, rvars, xvars>>

\* config.get('base_url', '') on what load_config returned: a list has no
\* get; of the mappings M1 has the key with a string, M2 lacks it and M3
\* has it with null
BaseUrl(content) ==
  IF content \in Lists THEN [kind |-> "AttributeError", value |-> "none"]
  ELSE IF content = "M1" THEN [kind |-> "return", value |-> "u1"]
  ELSE IF content = "M3" THEN [kind |-> "return", value |-> None]
  ELSE [kind |-> "return", value |-> ""]

\* ConfigLoader.get_environment_url(environment): an exception of
\* load_config propagates before the field is looked up
GetEnvironmentUrl(environment) ==
  /\ DoLoadConfig(EnvironmentConfigName, environment)
  /\ api' = "get_environment_url"
  /\ url' = IF last'.outcome = "return"
              THEN BaseUrl(heap'[last'.ref].data)
            ELSE [kind |-> last'.outcome, value |-> "none"]
  /\ UNCHANGED <<dvars, nvars, mvars, rvars, xvars>>

\* A caller changes the mapping it was handed (the object is shared)
Mutate(ref) ==
  /\ ref \in 1..Len(heap)
  /\ ~heap[ref].touched
  /\ heap' = [heap EXCEPT ![ref].touched = TRUE]
  /\ UNCHANGED <<fs, config_cache, reads, calls, fsOps, last, loaded, dvars, avars, nvars, mvars, rvars, xvars>>

\* The configuration directory changes under the loader
WriteFile(file, content) ==
  /\ fsOps < MaxFsOps
  /\ fs[file] # content
  /\ fs' = [fs EXCEPT ![file] = content]
  /\ fsOps' = fsOps + 1
  /\ UNCHANGED <<config_cache, heap, reads, calls, last, loaded, dvars, avars, nvars, mvars, rvars, xvars>>

DeleteFile(file) ==
  /\ fsOps < MaxFsOps
  /\ fs[file] # Absent
  /\ fs' = [fs EXCEPT ![file] = Absent]
  /\ fsOps' = fsOps + 1
  /\ UNCHANGED <<config_cache, heap, reads, calls, last, loaded, dvars, avars, nvars, mvars, rvars, xvars>>

Next ==
  \/ \E p \in Pairs : LoadConfig(p[1], p[2])
  \/ \E ref \in 1..Cardinality(Pairs) : Mutate(ref)
  \/ \E file \in Files, content \in Contents : WriteFile(file, content)
  \/ \E file \in Files : DeleteFile(file)

Spec == Init /\ [][Next]_vars

\* The accessors and load_config on one instance, over directories that
\* hold some of environment_dev.json, environment_default.yaml,
\* environment.yaml, test_dev.yaml and browser.yml
AccContents == Contents \cup {Absent}
AccDirs ==
  {[file \in AllFiles |->
      IF file = <<Key(EnvironmentConfigName, <<"dev">>), "json">> THEN c1
      ELSE IF file = <<Key(EnvironmentConfigName, Default), "yaml">> THEN c2
      ELSE IF file = <<EnvironmentConfigName, "yaml">> THEN c3
      ELSE IF file \in {<<Key(TestConfigName, <<"dev">>), "yaml">>,
                        <<BrowserConfigName, "yml">>} THEN c4
      ELSE Absent] :
     c1 \in AccContents, c2 \in {Absent, "M1", "M3", "L1"},
     c3 \in {Absent, "M1", "M2"}, c4 \in {Absent, "M2"}}

InitAcc ==
  /\ ConfigInit(AccDirs)
  /\ DataIdle(NoFile)
  /\ AccessIdle
  /\ FilesIdle(NoDir)
  /\ MainIdle(NoArgs)
  /\ RaceIdle
  /\ OthersIdle

NextAcc ==
  \/ \E p \in NamedPairs : LoadConfig(p[1], p[2])
  \/ \E environment \in Envs : GetBrowserConfig(environment)
  \/ \E environment \in Envs : GetTestConfig(environment)
  \/ \E environment \in Envs : GetEnvironmentUrl(environment)

SpecAcc == InitAcc /\ [][NextAcc]_vars

\* load_config for pairs with coinciding keys, over directories that do not
\* change and hold some of a_b_c.yaml, a_c.yaml, a_b.yaml and a.yml
KeyDirs ==
  {[file \in AllFiles |->
      IF file = <<<<"a", "b", "c">>, "yaml">> THEN c1
      ELSE IF file = <<<<"a", "c">>, "yaml">> THEN c2
      ELSE IF file = <<<<"a", "b">>, "yaml">> THEN c3
      ELSE IF file = <<<<"a">>, "yml">> THEN c4
      ELSE Absent] :
     c1 \in {Absent, Null, "M3"}, c2 \in {Absent, "L1"},
     c3 \in {Absent, "M1"}, c4 \in {Absent, "M2"}}

InitKeys ==
  /\ ConfigInit(KeyDirs)
  /\ DataIdle(NoFile)
  /\ AccessIdle
  /\ FilesIdle(NoDir)
  /\ MainIdle(NoArgs)
  /\ RaceIdle
  /\ OthersIdle

NextKeys == \E p \in KeyPairs : LoadConfig(p[1], p[2])

SpecKeys == InitKeys /\ [][NextKeys]_vars

\* ---- ElementHelper.check_checkbox / uncheck_checkbox on checkboxes whose
\* click toggles the selected state
MaxCheckboxCalls == 4
Elements == {"e1", "e2"}

\* is_checkbox_checked: element.is_selected()
IsCheckboxChecked(sel, element) == sel[element]
\* element.click() on such a checkbox
Click(sel, element) == [sel EXCEPT ![element] = ~@]

ClicksToCheckAlways(checked) == TRUE
\* if not self.is_checkbox_checked(element)
ClicksToCheck(checked) == ~checked
\* if self.is_checkbox_checked(element)
ClicksToUncheck(checked) == checked

CheckboxCall(op, element, clicked) ==
  [op |-> op, element |-> element, before |-> selected[element],
   clicked |-> clicked]

\* ElementHelper.check_checkbox(element)
CheckCheckbox(element) ==
  /\ Len(cbtrace) < MaxCheckboxCalls
  /\ LET c == ClicksToCheck(IsCheckboxChecked(selected, element))
     IN /\ selected' = IF c THEN Click(selected, element) ELSE selected
        /\ clicks' = IF c THEN [clicks EXCEPT ![element] = @ + 1] ELSE clicks
        /\ cbtrace' = Append(cbtrace, CheckboxCall("check", element, c))
  /\ UNCHANGED <<cvars, dvars, avars, nvars, mvars, rvars, lvars, hvars>>

\* ElementHelper.uncheck_checkbox(element)
UncheckCheckbox(element) ==
  /\ Len(cbtrace) < MaxCheckboxCalls
  /\ LET c == ClicksToUncheck(IsCheckboxChecked(selected, element))
     IN /\ selected' = IF c THEN Click(selected, element) ELSE selected
        /\ clicks' = IF c THEN [clicks EXCEPT ![element] = @ + 1] ELSE clicks
        /\ cbtrace' = Append(cbtrace, CheckboxCall("uncheck", element, c))
  /\ UNCHANGED <<cvars, dvars, avars, nvars, mvars, rvars, lvars, hvars>>

InitCheckbox ==
  /\ ConfigInit({EmptyDir})
  /\ DataIdle(NoFile)
  /\ AccessIdle
  /\ FilesIdle(NoDir)
  /\ MainIdle(NoArgs)
  /\ RaceIdle
  /\ selected \in [Elements -> BOOLEAN]
  /\ clicks = [e \in Elements |-> 0]
  /\ cbtrace = <<>>
  /\ LoggerIdle
  /\ ReporterIdle

NextCheckbox ==
  \/ \E element \in Elements : CheckCheckbox(element)
  \/ \E element \in Elements : UncheckCheckbox(element)

SpecCheckbox == InitCheckbox /\ [][NextCheckbox]_vars

\* ---- Logger.setup_logging on the root logger.  A handler is known by its
\* kind, the call that installed it (0: it was there before the first call)
\* and its level.
MaxSetups == 3
Levels == {"DEBUG", "INFO", "WARNING"}
Handler(kind, by, level) == [kind |-> kind, by |-> by, level |-> level]
Foreign(n) == Handler("foreign" , 0, n)
PreHandlers ==
  {<<>>, <<Foreign("a")>>, <<Foreign("a"), Foreign("b")>>,
   <<Foreign("a"), Foreign("b"), Foreign("c")>>}

\* root_logger.removeHandler(handler)
RemoveHandler(hs, h) == SelectSeq(hs, LAMBDA x : x # h)

RECURSIVE RemoveEach(_, _)
RemoveEach(hs, todo) ==
  IF todo = <<>> THEN hs
  ELSE RemoveEach(RemoveHandler(hs, Head(todo)), Tail(todo))

\* The loop run over the list itself: every removal shifts the rest, so
\* the handlers at even positions are never visited
ClearHandlersInPlace(hs) == [i \in 1..(Len(hs) \div 2) |-> hs[2 * i]]
\* for handler in root_logger.handlers[:]: root_logger.removeHandler(handler)
ClearHandlers(hs) == RemoveEach(hs, hs)

\* Logger.setup_logging(log_level, log_to_file): file_ok tells whether the
\* log directory and the log file can be created
SetupLogging(log_level, log_to_file, file_ok) ==
  /\ lcalls < MaxSetups
  /\ log_to_file \/ file_ok
  /\ lcalls' = lcalls + 1
  /\ LET cleared == ClearHandlers(handlers)
         console == Append(cleared, Handler("console", lcalls + 1, log_level))
     IN /\ handlers' =
             IF log_to_file /\ file_ok
               THEN Append(console, Handler("file", lcalls + 1, log_level))
             ELSE console
        /\ llast' = [log_to_file |-> log_to_file, log_level |-> log_level,
                     outcome |-> IF file_ok THEN "return" ELSE "OSError",
                     removed |-> handlers]
  /\ UNCHANGED <<cvars, dvars, avars, nvars, mvars, rvars, kvars, hvars>>

InitLogger ==
  /\ ConfigInit({EmptyDir})
  /\ DataIdle(NoFile)
  /\ AccessIdle
  /\ FilesIdle(NoDir)
  /\ MainIdle(NoArgs)
  /\ RaceIdle
  /\ CheckboxIdle
  /\ handlers \in PreHandlers
  /\ lcalls = 0
  /\ llast = NoSetup
  /\ ReporterIdle

NextLogger ==
  \E log_level \in Levels, log_to_file \in BOOLEAN, file_ok \in BOOLEAN :
     SetupLogging(log_level, log_to_file, file_ok)

SpecLogger == InitLogger /\ [][NextLogger]_vars

\* ---- HtmlReporter.generate_report(test_results, report_name) on one
\* mapping that the caller passes again and again.  A value of the mapping
\* is a number of seconds, a formatted text (its numbers, most significant
\* first: hours, minutes, seconds) or missing.
MaxReports == 3
Durations == {0, 5, 59, 60, 61, 125, 3600, 3725}
Num(n) == [type |-> "num", v |-> <<n>>]
Text(parts) == [type |-> "str", v |-> parts]
Missing == [type |-> "absent", v |-> <<>>]
TypeErrorValue == [type |-> "TypeError", v |-> <<>>]

\* test_results.get('duration', 0)
GetDuration(results) ==
  IF results.duration = Missing THEN Num(0) ELSE results.duration

\* HtmlReporter._format_duration: divmod of a str by an int raises TypeError
FormatDuration(value) ==
  IF value.type # "num" THEN TypeErrorValue
  ELSE LET minutes0 == value.v[1] \div 60
           seconds == value.v[1] % 60
           hours == minutes0 \div 60
           minutes == minutes0 % 60
       IN IF hours > 0 THEN Text(<<hours, minutes, seconds>>)
          ELSE IF minutes > 0 THEN Text(<<minutes, seconds>>)
          ELSE Text(<<seconds>>)

\* Lines 55-62: the name of the report file (<<>> is report_name=None)
ReportNames == {<<>>, <<"r">>, <<"r", "html">>, <<"r", "HTML">>}
\* report_name.lower().endswith('.html')
EndsWithHtml(report_name) ==
  /\ Len(report_name) >= 2
  /\ report_name[Len(report_name)] \in {"html", "HTML"}
ReportFile(report_name) ==
  IF report_name = <<>> THEN <<"test_report", "html">>
  ELSE IF EndsWithHtml(report_name) THEN report_name
  ELSE Append(report_name, "html")

\* HtmlReporter.generate_report: the time stamp is stored, then the
\* formatted duration; an exception leaves what was stored before it
GenerateReport(report_name) ==
  /\ hcalls < MaxReports
  /\ hcalls' = hcalls + 1
  /\ LET formatted == FormatDuration(GetDuration(hresults))
     IN IF formatted = TypeErrorValue
          THEN /\ hresults' = [hresults EXCEPT !.timestamp = hcalls + 1]
               /\ hlast' = [outcome |-> "TypeError",
                            name |-> ReportFile(report_name),
                            duration |-> <<>>]
               /\ UNCHANGED hfiles
        ELSE /\ hresults' = [duration |-> formatted, timestamp |-> hcalls + 1]
             /\ hlast' = [outcome |-> "return",
                          name |-> ReportFile(report_name),
                          duration |-> formatted.v]
             /\ hfiles' = hfiles \cup {ReportFile(report_name)}
  /\ UNCHANGED <<hgiven, cvars, dvars, avars, nvars, mvars, rvars, kvars, lvars>>

Mappings0 ==
  {[duration |-> d, timestamp |-> 0] :
     d \in {Num(n) : n \in Durations} \cup {Missing}}

InitReport ==
  /\ ConfigInit({EmptyDir})
  /\ DataIdle(NoFile)
  /\ AccessIdle
  /\ FilesIdle(NoDir)
  /\ MainIdle(NoArgs)
  /\ RaceIdle
  /\ CheckboxIdle
  /\ LoggerIdle
  /\ hgiven \in Mappings0
  /\ hresults = hgiven
  /\ hcalls = 0
  /\ hlast = NoReport
  /\ hfiles = {}

NextReport == \E report_name \in ReportNames : GenerateReport(report_name)

SpecReport == InitReport /\ [][NextReport]_vars

\* main() of __main__.py, from the try statement on.  Each call it makes is
\* one step; mtrace records the calls made and how each ended.
Supported == {"chrome", "firefox", "edge", "safari"}
\* browser_type.lower() on the values of --browser used here
LowerBrowser(b) == IF b = "Firefox" THEN "firefox" ELSE b
\* BrowserFactory.create_browser: an unsupported type raises ValueError; a
\* supported one gives a driver or fails in the driver set-up, as the
\* machine has it
CreateBrowserOutcomes(browser_type) ==
  IF LowerBrowser(browser_type) \in Supported
    THEN {"return", "WebDriverException"}
  ELSE {"ValueError"}

\* The exceptions the calls of main() raise, all subclasses of Exception
Exceptions ==
  {"FileNotFoundError", "ParseError", "ValueError", "WebDriverException"}
CaughtOnlyNotFound(exc) == exc = "FileNotFoundError"
\* except Exception
Caught(exc) == exc \in Exceptions

MainArgs ==
  [config : BOOLEAN, env : Envs, browser : {"chrome", "Firefox", "opera"}]
MainDirs ==
  {[file \in AllFiles |->
      IF file[1] \in {Key(BrowserConfigName, e) : e \in Envs}
           /\ file[2] = "yaml" THEN c1
      ELSE IF file = <<BrowserConfigName, "yml">> THEN c2
      ELSE IF file[1] \in {Key(TestConfigName, e) : e \in Envs}
           /\ file[2] = "json" THEN c3
      ELSE Absent] :
     c1 \in {Absent, Bad, Null, "M1", "L1"}, c2 \in {Absent, "M2"},
     c3 \in {Absent, Bad, "M3"}}

\* main() has parsed its arguments and enters the try statement
MainStart(args) ==
  /\ mpc = "try"
  /\ margs = args
  /\ mtrace = <<>>
  /\ mexit = "none"

Called(step, outcome) == [step |-> step, outcome |-> outcome]

AfterLoadIgnoringFailure(outcome, next) == next
\* Where main() goes after a load: on, or to the except clause when the
\* load raised
AfterLoad(outcome, next) == IF outcome = "return" THEN next ELSE "except"

\* if args.config: only a log line (lines 37-41)
MainCustomConfig ==
  /\ mpc = "try"
  /\ margs.config
  /\ mtrace' = Append(mtrace, Called("custom_config", "return"))
  /\ mpc' = "create_browser"
  /\ UNCHANGED <<margs, mexit, cvars, dvars, avars, nvars, rvars, xvars>>

\* browser_config = config_loader.get_browser_config(args.env)
MainBrowserConfig ==
  /\ mpc = "try"
  /\ ~margs.config
  /\ DoLoadConfig(BrowserConfigName, margs.env)
  /\ api' = "get_browser_config"
  /\ mtrace' = Append(mtrace, Called("get_browser_config", last'.outcome))
  /\ mpc' = AfterLoad(last'.outcome, "test_config")
  /\ UNCHANGED <<margs, mexit, url, dvars, nvars, rvars, xvars>>

\* test_config = config_loader.get_test_config(args.env)
MainTestConfig ==
  /\ mpc = "test_config"
  /\ DoLoadConfig(TestConfigName, margs.env)
  /\ api' = "get_test_config"
  /\ mtrace' = Append(mtrace, Called("get_test_config", last'.outcome))
  /\ mpc' = AfterLoad(last'.outcome, "create_browser")
  /\ UNCHANGED <<margs, mexit, url, dvars, nvars, rvars, xvars>>

\* browser_factory.create_browser(...), then return 0
MainCreateBrowser ==
  /\ mpc = "create_browser"
  /\ \E outcome \in CreateBrowserOutcomes(margs.browser) :
       /\ mtrace' = Append(mtrace, Called("create_browser", outcome))
       /\ IF outcome = "return"
            THEN mpc' = "done" /\ mexit' = "0"
          ELSE mpc' = "except" /\ UNCHANGED mexit
  /\ UNCHANGED <<margs, cvars, dvars, avars, nvars, rvars, xvars>>

\* except Exception as e: ... return 1; anything else leaves main()
MainExcept ==
  /\ mpc = "except"
  /\ mpc' = "done"
  /\ mexit' = IF Caught(mtrace[Len(mtrace)].outcome) THEN "1" ELSE "raised"
  /\ UNCHANGED <<margs, mtrace, cvars, dvars, avars, nvars, rvars, xvars>>

InitMain ==
  /\ ConfigInit(MainDirs)
  /\ DataIdle(NoFile)
  /\ AccessIdle
  /\ FilesIdle(NoDir)
  /\ \E args \in MainArgs : MainStart(args)
  /\ RaceIdle
  /\ OthersIdle

NextMain ==
  \/ MainCustomConfig
  \/ MainBrowserConfig
  \/ MainTestConfig
  \/ MainCreateBrowser
  \/ MainExcept

SpecMain == InitMain /\ [][NextMain]_vars

\* Two threads call load_config for the same pair on one instance over a
\* directory that does not change.  The steps are the accesses to the
\* shared dictionary (the test at line 40 with the read at line 41, and the
\* assignment at line 53) and the file loads between them; each load
\* builds an object of its own.
Threads == {1, 2}
RaceDirs ==
  {[file \in AllFiles |->
      IF file[1] \in {Key(p[1], p[2]) : p \in Pairs} /\ file[2] = "yaml"
        THEN c1
      ELSE IF file[1] \in Names /\ file[2] = "yml" THEN c2
      ELSE Absent] :
     c1 \in {Absent, Bad, Null, "M1", "L1"}, c2 \in {Absent, Bad, Null, "M2"}}

NoRet == [outcome |-> "none", ref |-> 0]
RaceStart(p) ==
  /\ rpc = [t \in Threads |-> "check"]
  /\ rlocal = [t \in Threads |->
                 [config_name |-> p[1], environment |-> p[2],
                  config_data |-> None, ref |-> 0]]
  /\ rret = [t \in Threads |-> NoRet]

CacheKeyOf(t) == Key(rlocal[t].config_name, rlocal[t].environment)
PairOf(t) == <<rlocal[t].config_name, rlocal[t].environment>>

\* if cache_key in self.config_cache: return self.config_cache[cache_key]
RCheckCache(t) ==
  /\ rpc[t] = "check"
  /\ IF InCache(CacheKeyOf(t), config_cache)
       THEN /\ rpc' = [rpc EXCEPT ![t] = "done"]
            /\ rret' = [rret EXCEPT ![t] =
                          [outcome |-> "return",
                           ref |-> config_cache[CacheKeyOf(t)]]]
       ELSE /\ rpc' = [rpc EXCEPT ![t] = "env"]
            /\ UNCHANGED rret
  /\ UNCHANGED <<rlocal, cvars, dvars, avars, nvars, mvars, xvars>>

\* One _try_load_config call of thread t for a base name; with no document
\* after the last tier the thread raises FileNotFoundError
RTryLoad(t, base, lastTier) ==
  LET r == TryLoadConfig(fs, base)
  IN /\ reads' = [reads EXCEPT ![PairOf(t)] = @ + Len(r.opened)]
     /\ IF r.data = ParseError
          THEN /\ rpc' = [rpc EXCEPT ![t] = "done"]
               /\ rret' = [rret EXCEPT ![t] =
                             [outcome |-> "ParseError", ref |-> 0]]
               /\ UNCHANGED <<rlocal, heap>>
        ELSE IF r.data = None
          THEN /\ UNCHANGED <<rlocal, heap>>
               /\ IF lastTier
                    THEN /\ rpc' = [rpc EXCEPT ![t] = "done"]
                         /\ rret' = [rret EXCEPT ![t] =
                                       [outcome |-> "FileNotFoundError",
                                        ref |-> 0]]
                  ELSE /\ rpc' = [rpc EXCEPT ![t] = "default"]
                       /\ UNCHANGED rret
        ELSE /\ heap' = Append(heap, [data |-> r.data, touched |-> FALSE])
             /\ rlocal' = [rlocal EXCEPT ![t].config_data = r.data,
                                         ![t].ref = Len(heap) + 1]
             /\ rpc' = [rpc EXCEPT ![t] = "store"]
             /\ UNCHANGED rret
     /\ UNCHANGED <<fs, config_cache, calls, fsOps, last, loaded>>
     /\ UNCHANGED <<dvars, avars, nvars, mvars, xvars>>

\* config_data = self._try_load_config(config_name, environment)
RTryEnvironment(t) ==
  /\ rpc[t] = "env"
  /\ RTryLoad(t, CacheKeyOf(t), rlocal[t].environment = Default)

\* config_data = self._try_load_config(config_name)
RTryDefault(t) ==
  /\ rpc[t] = "default"
  /\ RTryLoad(t, rlocal[t].config_name, TRUE)

\* self.config_cache[cache_key] = config_data; return config_data
RStore(t) ==
  /\ rpc[t] = "store"
  /\ config_cache' = CacheStore(config_cache, CacheKeyOf(t), rlocal[t].ref)
  /\ rpc' = [rpc EXCEPT ![t] = "done"]
  /\ rret' = [rret EXCEPT ![t] =
                [outcome |-> "return", ref |-> rlocal[t].ref]]
  /\ UNCHANGED <<rlocal, fs, heap, reads, calls, fsOps, last, loaded>>
  /\ UNCHANGED <<dvars, avars, nvars, mvars, xvars>>

InitRace ==
  /\ ConfigInit(RaceDirs)
  /\ DataIdle(NoFile)
  /\ AccessIdle
  /\ FilesIdle(NoDir)
  /\ MainIdle(NoArgs)
  /\ \E p \in Pairs : RaceStart(p)
  /\ OthersIdle

NextRace ==
  \/ \E t \in Threads : RCheckCache(t)
  \/ \E t \in Threads : RTryEnvironment(t)
  \/ \E t \in Threads : RTryDefault(t)
  \/ \E t \in Threads : RStore(t)

SpecRace == InitRace /\ [][NextRace]_vars

\* ----------------------------------------------------------- DataLoader
\* Python values that occur in test data, all of one shape <<type, text>>:
\* a str, None (DictReader's restval) and a list of str (its restkey value)
Str(s) == <<"str", <<s>>>>
NoneVal == <<"none", <<>>>>
ListVal(fields) == <<"list", fields>>
\* The key None under which DictReader stores surplus fields
KNone == "<None>"

\* A dict is the sequence of its items in insertion order, keys distinct
HasKey(items, k) == \E i \in 1..Len(items) : items[i].k = k
Get(items, k) == items[CHOOSE i \in 1..Len(items) : items[i].k = k].v
\* d[k] = v: an existing key keeps its position
DictSet(items, k, v) ==
  IF HasKey(items, k)
    THEN [i \in 1..Len(items) |->
            IF items[i].k = k THEN [k |-> k, v |-> v] ELSE items[i]]
  ELSE Append(items, [k |-> k, v |-> v])
\* list(d.keys())
KeysOf(items) == [i \in 1..Len(items) |-> items[i].k]

\* An element of a parsed sequence: a mapping, or something else (a number)
MapElem(items) == [kind |-> "map", items |-> items]
IntElem == [kind |-> "int", items |-> <<>>]

Min(a, b) == IF a < b THEN a ELSE b

\* csv.DictReader.__next__ for one row: dict(zip(fieldnames, row)), surplus
\* fields under the key None, missing fields set to None
RowDict(fieldnames, row) ==
  LET lf == Len(fieldnames)
      lr == Len(row)
      zipped[i \in 0..Min(lf, lr)] ==
        IF i = 0 THEN <<>>
        ELSE DictSet(zipped[i - 1], fieldnames[i], Str(row[i]))
      filled[j \in lr..lf] ==
        IF j = lr THEN zipped[lr]
        ELSE DictSet(filled[j - 1], fieldnames[j], NoneVal)
  IN IF lf < lr THEN DictSet(zipped[lf], KNone, ListVal(SubSeq(row, lf + 1, lr)))
     ELSE IF lf > lr THEN filled[lf]
     ELSE zipped[lf]

DictReaderHeaderAsRow(rows) ==
  IF rows = <<>> THEN <<>>
  ELSE LET fieldnames == rows[1]
           body == SelectSeq(rows, LAMBDA r : r # <<>>)
       IN [i \in 1..Len(body) |-> MapElem(RowDict(fieldnames, body[i]))]

\* load_csv: [row for row in csv.DictReader(file)].  The first row gives the
\* field names (even when it is blank); blank rows after it are skipped.
DictReader(rows) ==
  IF rows = <<>> THEN <<>>
  ELSE LET fieldnames == rows[1]
           body == SelectSeq(Tail(rows), LAMBDA r : r # <<>>)
       IN [i \in 1..Len(body) |-> MapElem(RowDict(fieldnames, body[i]))]

IsListOrNone(doc) == doc.kind \in {"list", "null"}
\* isinstance(data, list)
IsList(doc) == doc.kind = "list"

\* load_test_data up to the shape test: which loader the extension selects
\* and what it delivers
LoadData(file) ==
  IF file.ext = "csv"
    THEN [err |-> "none", data |-> DictReader(file.doc)]
  ELSE IF ~IsList(file.doc)
    THEN [err |-> "ValueError", data |-> <<>>]
  ELSE [err |-> "none", data |-> file.doc.elems]

\* list(data[0].keys())
FirstKeys(d) ==
  IF d[1].kind # "map" THEN [err |-> "AttributeError", keys |-> <<>>]
  ELSE [err |-> "none", keys |-> KeysOf(d[1].items)]

TupleOfGet(item, ks) ==
  IF ks # <<>> /\ item.kind # "map"
    THEN [err |-> "TypeError", value |-> <<>>]
  ELSE [err |-> "none",
        value |-> [j \in 1..Len(ks) |->
                     IF HasKey(item.items, ks[j]) THEN Get(item.items, ks[j])
                     ELSE NoneVal]]

TupleOfOwnValues(item, ks) ==
  IF ks # <<>> /\ item.kind # "map"
    THEN [err |-> "TypeError", value |-> <<>>]
  ELSE IF \E j \in 1..Len(ks) : ~HasKey(item.items, ks[j])
    THEN [err |-> "KeyError", value |-> <<>>]
  ELSE [err |-> "none",
        value |-> [j \in 1..Len(item.items) |-> item.items[j].v]]

\* tuple(item[key] for key in keys)
TupleOf(item, ks) ==
  IF ks # <<>> /\ item.kind # "map"
    THEN [err |-> "TypeError", value |-> <<>>]
  ELSE IF \E j \in 1..Len(ks) : ~HasKey(item.items, ks[j])
    THEN [err |-> "KeyError", value |-> <<>>]
  ELSE [err |-> "none",
        value |-> [j \in 1..Len(ks) |-> Get(item.items, ks[j])]]

\* load_test_data(file_name), from the call to the first record
CallLoadTestData ==
  /\ dpc = "call"
  /\ dfile.ext \in {"csv", "json", "yaml"}
  /\ LET l == LoadData(dfile)
     IN IF l.err # "none"
          THEN /\ dout' = [kind |-> l.err, value |-> <<>>]
               /\ dpc' = "done"
               /\ UNCHANGED <<data, keys, result, idx>>
        ELSE IF l.data = <<>>
          THEN /\ data' = l.data
               /\ result' = <<>>
               /\ dpc' = "return"
               /\ UNCHANGED <<keys, idx, dout>>
        ELSE LET k == FirstKeys(l.data)
             IN IF k.err # "none"
                  THEN /\ data' = l.data
                       /\ dout' = [kind |-> k.err, value |-> <<>>]
                       /\ dpc' = "done"
                       /\ UNCHANGED <<keys, result, idx>>
                ELSE /\ data' = l.data
                     /\ keys' = k.keys
                     /\ result' = <<>>
                     /\ idx' = 1
                     /\ dpc' = "loop"
                     /\ UNCHANGED dout
  /\ UNCHANGED <<dfile, cvars, avars, nvars, mvars, rvars, xvars>>

\* One iteration of "for item in data: result.append(tuple(...))"
FlattenStep ==
  /\ dpc = "loop"
  /\ idx <= Len(data)
  /\ LET t == TupleOf(data[idx], keys)
     IN IF t.err # "none"
          THEN /\ dout' = [kind |-> t.err, value |-> <<>>]
               /\ dpc' = "done"
               /\ UNCHANGED <<result, idx>>
        ELSE /\ result' = Append(result, t.value)
             /\ idx' = idx + 1
             /\ UNCHANGED <<dpc, dout>>
  /\ UNCHANGED <<dfile, data, keys, cvars, avars, nvars, mvars, rvars, xvars>>

\* The loop is exhausted
EndLoop ==
  /\ dpc = "loop"
  /\ idx > Len(data)
  /\ dpc' = "return"
  /\ UNCHANGED <<dfile, data, keys, result, idx, dout, cvars, avars, nvars, mvars, rvars, xvars>>

\* return result
ReturnResult ==
  /\ dpc = "return"
  /\ dout' = [kind |-> "return", value |-> result]
  /\ dpc' = "done"
  /\ UNCHANGED <<dfile, data, keys, result, idx, cvars, avars, nvars, mvars, rvars, xvars>>

\* The whole of load_test_data as a function of the file
FlattenAll(d, ks) ==
  LET acc[i \in 0..Len(d)] ==
        IF i = 0 THEN [kind |-> "return", value |-> <<>>]
        ELSE IF acc[i - 1].kind # "return" THEN acc[i - 1]
        ELSE LET t == TupleOf(d[i], ks)
             IN IF t.err # "none" THEN [kind |-> t.err, value |-> <<>>]
                ELSE [kind |-> "return",
                      value |-> Append(acc[i - 1].value, t.value)]
  IN acc[Len(d)]

LoadTestData(file) ==
  LET l == LoadData(file)
  IN IF l.err # "none" THEN [kind |-> l.err, value |-> <<>>]
     ELSE IF l.data = <<>> THEN [kind |-> "return", value |-> <<>>]
     ELSE LET k == FirstKeys(l.data)
          IN IF k.err # "none" THEN [kind |-> k.err, value |-> <<>>]
             ELSE FlattenAll(l.data, k.keys)

\* ---- the files the data directory may hold
MaxRecords == 3
MaxFields == 2
DKeys == {"a", "b"}
DValues == {"1", "2"}

SeqsUpTo(S, n) == UNION {[1..m -> S] : m \in 0..n}
Distinct(q) == \A i, j \in 1..Len(q) : i # j => q[i] # q[j]

\* Mappings with distinct keys (in any order) and str values that differ
\* from key to key, so that a tuple shows which key each position came from
Dicts ==
  {d \in SeqsUpTo([k : DKeys, v : {Str(x) : x \in DValues}], Cardinality(DKeys)) :
     Distinct(KeysOf(d)) /\ Distinct([i \in 1..Len(d) |-> d[i].v])}
Elems == {MapElem(d) : d \in Dicts} \cup {IntElem}

\* What json.load / yaml.safe_load may deliver
ListDoc(elems) == [kind |-> "list", elems |-> elems]
Docs ==
  {ListDoc(e) : e \in SeqsUpTo(Elems, MaxRecords)}
    \cup {[kind |-> k, elems |-> <<>>] : k \in {"null", "map", "scalar"}}

\* What csv.reader may deliver: a header row and rows of fields
CsvRows == SeqsUpTo(DValues, MaxFields)
CsvDocs ==
  {<<>>} \cup
  {<<h>> \o body : h \in SeqsUpTo(DKeys, Cardinality(DKeys)),
                   body \in SeqsUpTo(CsvRows, MaxRecords - 1)}

DataFiles ==
  {[ext |-> "csv", doc |-> d] : d \in CsvDocs}
    \cup {[ext |-> e, doc |-> d] : e \in {"json", "yaml"}, d \in Docs}

InitData ==
  /\ ConfigInit({EmptyDir})
  /\ \E file \in DataFiles : DataIdle(file)
  /\ AccessIdle
  /\ FilesIdle(NoDir)
  /\ MainIdle(NoArgs)
  /\ RaceIdle
  /\ OthersIdle

NextData ==
  \/ CallLoadTestData
  \/ FlattenStep
  \/ EndLoop
  \/ ReturnResult

SpecData == InitData /\ [][NextData]_vars

\* ---- DataLoader's public loaders on a data directory of named files.  A
\* file name is the sequence of its parts between dots: "x.yml.yaml" is
\* <<"x", "yml", "yaml">>.  A file holds the data set "A" or "B", written
\* in the format of its last extension.
Lower(part) ==
  IF part = "CSV" THEN "csv" ELSE IF part = "YML" THEN "yml" ELSE part

EndsWithExact(file_name, extension) ==
  Len(file_name) >= 2 /\ file_name[Len(file_name)] = extension
\* file_name.lower().endswith('.' + extension)
EndsWith(file_name, extension) ==
  Len(file_name) >= 2 /\ Lower(file_name[Len(file_name)]) = extension

DataSets == {"A", "B"}
\* What csv.reader and json.load / yaml.safe_load deliver for a data set
ParseCsv(set) == <<<<"a">>, <<IF set = "A" THEN "1" ELSE "2">>>>
ParseDoc(set) ==
  ListDoc(<<MapElem(<<[k |-> "a",
                       v |-> Str(IF set = "A" THEN "1" ELSE "2")]>>)>>)

\* os.path.exists(os.path.join(self.data_dir, file_name))
PathExists(dir, path) == path \in DOMAIN dir /\ dir[path] # Absent

Exist(path) == [op |-> "exists", path |-> path]
Open(path) == [op |-> "open", path |-> path]

\* DataLoader._get_file_path(file_name, extension)
GetFilePath(dir, file_name, extension) ==
  LET path == IF EndsWith(file_name, extension) THEN file_name
              ELSE Append(file_name, extension)
  IN [found |-> PathExists(dir, path), path |-> path]

NotLoaded(kind, path, acc, msg) ==
  [kind |-> kind, path |-> path, content |-> "none", acc |-> acc,
   msg |-> msg]
Loaded(dir, path, acc) ==
  [kind |-> "return", path |-> path, content |-> dir[path],
   acc |-> Append(acc, Open(path)), msg |-> <<>>]

\* DataLoader.load_csv / load_json: resolve, then open and parse
LoadWithExtension(dir, file_name, extension) ==
  LET g == GetFilePath(dir, file_name, extension)
  IN IF ~g.found
       THEN NotLoaded("FileNotFoundError", g.path, <<Exist(g.path)>>, g.path)
     ELSE Loaded(dir, g.path, <<Exist(g.path)>>)
DataLoadCsv(dir, file_name) == LoadWithExtension(dir, file_name, "csv")
DataLoadJson(dir, file_name) == LoadWithExtension(dir, file_name, "json")

YamlExtensionsYmlFirst == <<"yml", "yaml">>
\* load_yaml tries '.yaml', then '.yml'
YamlExtensions == <<"yaml", "yml">>

\* DataLoader.load_yaml
DataLoadYaml(dir, file_name) ==
  LET g1 == GetFilePath(dir, file_name, YamlExtensions[1])
      g2 == GetFilePath(dir, file_name, YamlExtensions[2])
  IN IF g1.found THEN Loaded(dir, g1.path, <<Exist(g1.path)>>)
     ELSE IF g2.found
       THEN Loaded(dir, g2.path, <<Exist(g1.path), Exist(g2.path)>>)
     ELSE NotLoaded("FileNotFoundError", g2.path,
                    <<Exist(g1.path), Exist(g2.path)>>, file_name)

\* What a call delivers: how it ended, the loader it went through, the file
\* it loaded and that file's data set, the tuples made of it, and what the
\* error names
Delivered(l, loader, out) ==
  [kind |-> IF l.kind # "return" THEN l.kind ELSE out.kind,
   loader |-> loader, path |-> l.path, content |-> l.content,
   tuples |-> out.value, msg |-> l.msg]

\* DataLoader.load_test_data by file name
LoadTestDataByName(dir, file_name) ==
  IF EndsWith(file_name, "csv")
    THEN LET l == DataLoadCsv(dir, file_name)
         IN [acc |-> l.acc,
             out |-> Delivered(l, "csv",
                       IF l.kind # "return" THEN NoOutcome
                       ELSE LoadTestData([ext |-> "csv",
                                          doc |-> ParseCsv(l.content)]))]
  ELSE IF EndsWith(file_name, "json")
    THEN LET l == DataLoadJson(dir, file_name)
         IN [acc |-> l.acc,
             out |-> Delivered(l, "json",
                       IF l.kind # "return" THEN NoOutcome
                       ELSE LoadTestData([ext |-> "json",
                                          doc |-> ParseDoc(l.content)]))]
  ELSE IF EndsWith(file_name, "yaml") \/ EndsWith(file_name, "yml")
    THEN LET l == DataLoadYaml(dir, file_name)
         IN [acc |-> l.acc,
             out |-> Delivered(l, "yaml",
                       IF l.kind # "return" THEN NoOutcome
                       ELSE LoadTestData([ext |-> "yaml",
                                          doc |-> ParseDoc(l.content)]))]
  ELSE [acc |-> <<>>,
        out |-> Delivered(NotLoaded("ValueError", <<>>, <<>>, file_name),
                          "none", NoOutcome)]

\* The four public calls, each made once on the directory
Deliver(fn, file_name, l, out) ==
  /\ fcall' = [fn |-> fn, name |-> file_name]
  /\ fout' = out
  /\ facc' = l.acc
  /\ UNCHANGED <<ddir, cvars, dvars, avars, mvars, rvars, xvars>>

CallLoadTestDataByName(file_name) ==
  /\ fcall.fn = "none"
  /\ LET r == LoadTestDataByName(ddir, file_name)
     IN Deliver("load_test_data", file_name, r, r.out)
CallLoadCsv(file_name) ==
  /\ fcall.fn = "none"
  /\ LET l == DataLoadCsv(ddir, file_name)
     IN Deliver("load_csv", file_name, l,
                Delivered(l, "csv", [kind |-> l.kind, value |-> <<>>]))
CallLoadJson(file_name) ==
  /\ fcall.fn = "none"
  /\ LET l == DataLoadJson(ddir, file_name)
     IN Deliver("load_json", file_name, l,
                Delivered(l, "json", [kind |-> l.kind, value |-> <<>>]))
CallLoadYaml(file_name) ==
  /\ fcall.fn = "none"
  /\ LET l == DataLoadYaml(ddir, file_name)
     IN Deliver("load_yaml", file_name, l,
                Delivered(l, "yaml", [kind |-> l.kind, value |-> <<>>]))

\* The files a data directory may hold and the names a caller may pass
X == <<"x">>
YamlFamily ==
  {<<"x", "yaml">>, <<"x", "yml">>, <<"x", "yml", "yaml">>,
   <<"x", "yaml", "yml">>}
OtherFiles == {<<"x", "csv">>, <<"x", "CSV">>, <<"x", "json">>, <<"x", "txt">>}
DirNames == YamlFamily \cup OtherFiles \cup {X}
DataDirs ==
  {[n \in DirNames |->
      IF n \in YamlFamily THEN y[n]
      ELSE IF n \in o THEN "A" ELSE Absent] :
     y \in [YamlFamily -> DataSets \cup {Absent}],
     o \in SUBSET (OtherFiles \cup {X})}
CallNames ==
  {X, <<"x", "yaml">>, <<"x", "yml">>, <<"x", "YML">>, <<"x", "csv">>,
   <<"x", "CSV">>, <<"x", "json">>, <<"x", "txt">>}

InitFiles ==
  /\ ConfigInit({EmptyDir})
  /\ DataIdle(NoFile)
  /\ AccessIdle
  /\ \E dir \in DataDirs : FilesIdle(dir)
  /\ MainIdle(NoArgs)
  /\ RaceIdle
  /\ OthersIdle

NextFiles ==
  \/ \E file_name \in CallNames : CallLoadTestDataByName(file_name)
  \/ \E file_name \in CallNames : CallLoadCsv(file_name)
  \/ \E file_name \in CallNames : CallLoadJson(file_name)
  \/ \E file_name \in CallNames : CallLoadYaml(file_name)

SpecFiles == InitFiles /\ [][NextFiles]_vars

\* ------------------------------------------------ ConfigLoader properties

\* The step is a load_config(p[1], p[2]) call
IsLoad(p) ==
  /\ calls' = calls + 1
  /\ last'.config_name = p[1]
  /\ last'.environment = p[2]

\* Files of one base name that exist, and the first of them in the order
\* .yaml, .yml, .json
Present(f, base) == {i \in 1..3 : Exists(f, <<base, Exts[i]>>)}
Earliest(f, base) ==
  <<base, Exts[CHOOSE i \in Present(f, base) : \A j \in Present(f, base) : i <= j]>>

LastPair == <<last.config_name, last.environment>>

\* C1: once load_config(name, environment) has returned, every later call
\* with the same pair returns the same object (the reference first handed
\* out, which is the cache entry) without testing or opening any file.
C1_CachedIdentity ==
  last.again =>
    /\ last.outcome = "return"
    /\ last.ref = loaded[LastPair].ref
    /\ last.ref = config_cache[Key(last.config_name, last.environment)]
    /\ last.checked = <<>>
    /\ last.opened = <<>>

\* A second call returned the object although a caller had changed it and
\* the directory had changed since
C1_Witness ==
  /\ last.again
  /\ last.outcome = "return"
  /\ heap[last.ref].touched
  /\ fsOps > 0

\* C2 (as claimed): for every pair the number of file reads made on its
\* behalf, over all calls, is at most one.
C2_AtMostOneRead == \A p \in Pairs : reads[p] <= 1

\* C2 (amended): files are read only by calls that find the key uncached;
\* such a call opens at most one file per tier (two in all, the second
\* being of the default tier), and after the first successful return for a
\* pair no file is read for it again.
C2_ReadsOnlyUntilLoaded ==
  /\ last.hit => last.opened = <<>>
  /\ Len(last.opened) <= 2
  /\ Len(last.opened) = 2 =>
        /\ last.opened[1][1] = Key(last.config_name, last.environment)
        /\ last.opened[2][1] = last.config_name
        /\ last.environment # Default
  /\ \A p \in DOMAIN loaded : reads[p] = loaded[p].reads

\* A pair was read twice before it loaded, and a later call read nothing
C2_Witness ==
  /\ last.again
  /\ last.outcome = "return"
  /\ reads[LastPair] = 2
  /\ last.opened = <<>>

\* C3 (as claimed): for an environment other than "default" and an uncached
\* key, when no {name}_{environment}.* exists: if some {name}.* exists (and
\* is well-formed) the call returns the content of the first of them, and
\* if none exists the call fails with the not-found error.
C3_FallbackToDefault ==
  [][\A p \in Pairs :
       (/\ IsLoad(p)
        /\ p[2] # Default
        /\ ~InCache(Key(p[1], p[2]), config_cache)
        /\ Present(fs, Key(p[1], p[2])) = {})
       => IF Present(fs, p[1]) = {}
            THEN last'.outcome = "FileNotFoundError"
          ELSE fs[Earliest(fs, p[1])] # Bad =>
                 /\ last'.outcome = "return"
                 /\ heap'[last'.ref].data = fs[Earliest(fs, p[1])]]_vars

\* C4: within one tier the precedence is .yaml, .yml, .json: when the files
\* of the tier that exist all hold mappings, an uncached call returns the
\* content of the earliest of them and opens no other file.
SearchedTier(f, p) ==
  IF Present(f, Key(p[1], p[2])) # {} \/ p[2] = Default
    THEN Key(p[1], p[2])
  ELSE p[1]

C4_FormatPrecedence ==
  [][\A p \in Pairs :
       LET tier == SearchedTier(fs, p)
       IN (/\ IsLoad(p)
           /\ ~InCache(Key(p[1], p[2]), config_cache)
           /\ Present(fs, tier) # {}
           /\ \A i \in Present(fs, tier) : fs[<<tier, Exts[i]>>] \in Mappings)
          => /\ last'.outcome = "return"
             /\ heap'[last'.ref].data = fs[Earliest(fs, tier)]
             /\ last'.opened = <<Earliest(fs, tier)>>]_vars

\* .yml was loaded while a .json of the same base held another mapping
C4_Witness ==
  /\ last.outcome = "return"
  /\ ~last.hit
  /\ last.opened = <<<<last.opened[1][1], "yml">>>>
  /\ fs[<<last.opened[1][1], "json">>] \in Mappings
  /\ fs[<<last.opened[1][1], "yml">>] = heap[last.ref].data
  /\ fs[<<last.opened[1][1], "json">>] # heap[last.ref].data

\* C5: an uncached call that finds no file at any path it searches raises
\* FileNotFoundError with a message naming the name and the environment,
\* returns nothing and caches nothing.
C5_NotFound ==
  [][\A p \in Pairs :
       (/\ IsLoad(p)
        /\ ~InCache(Key(p[1], p[2]), config_cache)
        /\ Present(fs, Key(p[1], p[2])) = {}
        /\ (p[2] # Default => Present(fs, p[1]) = {}))
       => /\ last'.outcome = "FileNotFoundError"
          /\ last'.msg = <<p[1], p[2]>>
          /\ last'.ref = 0
          /\ config_cache' = config_cache]_vars

\* A call for a non-default environment searched both tiers and failed
C5_Witness ==
  /\ last.outcome = "FileNotFoundError"
  /\ last.environment # Default
  /\ Len(last.checked) = 6
  /\ last.opened = <<>>

\* C6: a cached entry is never invalidated or replaced: every step keeps
\* each cache entry bound to the same object with the same loaded content,
\* and a call for a pair that has loaded before returns the first loaded
\* value whatever the directory holds by then.
C6_NeverInvalidated ==
  [][/\ \A k \in DOMAIN config_cache :
          /\ k \in DOMAIN config_cache'
          /\ config_cache'[k] = config_cache[k]
          /\ heap'[config_cache[k]].data = heap[config_cache[k]].data
     /\ \A p \in DOMAIN loaded :
          IsLoad(p) => /\ last'.outcome = "return"
                       /\ heap'[last'.ref].data = loaded[p].data]_vars

\* The first load fell back to the default file; an environment-specific
\* file with another content exists now, and the later call still returned
\* the first value
C6_Witness ==
  /\ last.again
  /\ last.outcome = "return"
  /\ loaded[LastPair].from[1] = last.config_name
  /\ last.environment # Default
  /\ fs[<<Key(last.config_name, last.environment), "yaml">>] \in Mappings
  /\ fs[<<Key(last.config_name, last.environment), "yaml">>] # heap[last.ref].data

\* -------------------------------------------------- DataLoader properties

\* The records of the file given: the rows DictReader delivers, or the
\* elements of the parsed sequence
RecordsOf(file) ==
  IF file.ext = "csv" THEN DictReader(file.doc)
  ELSE IF file.doc.kind = "list" THEN file.doc.elems
  ELSE <<>>

AllMaps(d) == \A i \in 1..Len(d) : d[i].kind = "map"
\* Record i has every key of the first record
HasFirstKeys(d, i) ==
  \A j \in 1..Len(d[1].items) : HasKey(d[i].items, d[1].items[j].k)

\* C7: N >= 1 records that all contain the keys of the first record, which
\* has K keys, give exactly N tuples of arity K, in input order, position j
\* of tuple i holding record i's value for the first record's j-th key.
C7_TuplesPerRecord ==
  LET d == RecordsOf(dfile)
  IN (/\ dpc = "done"
      /\ Len(d) >= 1
      /\ AllMaps(d)
      /\ \A i \in 1..Len(d) : HasFirstKeys(d, i))
     => /\ dout.kind = "return"
        /\ Len(dout.value) = Len(d)
        /\ \A i \in 1..Len(d) :
             /\ Len(dout.value[i]) = Len(d[1].items)
             /\ \A j \in 1..Len(d[1].items) :
                  dout.value[i][j] = Get(d[i].items, d[1].items[j].k)

\* Three records were flattened on the single key of the first one although
\* a later record has one key more, in front of it
C7_Witness ==
  /\ dpc = "done"
  /\ dout.kind = "return"
  /\ Len(dout.value) = 3
  /\ Len(data[1].items) = 1
  /\ Len(data[2].items) = 2
  /\ data[2].items[1].k # data[1].items[1].k
  /\ dout.value[2] = <<data[2].items[2].v>>

\* The CSV file with the content of a sequence of records with str values:
\* the first record's keys as header, one row of values per record
CsvFixture(e) ==
  IF e = <<>> THEN <<>>
  ELSE <<KeysOf(e[1].items)>> \o
       [i \in 1..Len(e) |->
          [j \in 1..Len(e[1].items) |-> Get(e[i].items, e[1].items[j].k)[2][1]]]

\* Records with one common, non-empty set of keys
UniformlyKeyed(e) ==
  /\ AllMaps(e)
  /\ \A i \in 1..Len(e) :
       /\ Len(e[i].items) >= 1
       /\ {e[i].items[j].k : j \in 1..Len(e[i].items)}
            = {e[1].items[j].k : j \in 1..Len(e[1].items)}

\* C8: for uniformly-keyed records with str values (at least one key, as a
\* CSV table needs a column), the JSON file, the YAML file and the CSV file
\* with that content give the same sequence of tuples.
C8_FormatsAgree ==
  (/\ dpc = "done"
   /\ dfile.ext = "json"
   /\ IsList(dfile.doc)
   /\ UniformlyKeyed(dfile.doc.elems))
  => /\ dout.kind = "return"
     /\ dout = LoadTestData([ext |-> "csv", doc |-> CsvFixture(dfile.doc.elems)])
     /\ dout = LoadTestData([ext |-> "yaml", doc |-> dfile.doc])

\* Rows {a:1,b:2},{b:1,a:2} gave [("1","2"),("2","1")]
C8_Witness ==
  /\ dpc = "done"
  /\ dfile.ext = "json"
  /\ IsList(dfile.doc)
  /\ UniformlyKeyed(dfile.doc.elems)
  /\ Len(dfile.doc.elems) = 2
  /\ KeysOf(dfile.doc.elems[1].items) = <<"a", "b">>
  /\ KeysOf(dfile.doc.elems[2].items) = <<"b", "a">>
  /\ dout.value = <<<<Str("1"), Str("2")>>, <<Str("2"), Str("1")>>>>

\* C9: a JSON or YAML file whose top level is not a sequence fails with
\* ValueError: the call never reaches the loop or the return, and delivers
\* no sequence.
C9_NotASequence ==
  (dfile.ext \in {"json", "yaml"} /\ dfile.doc.kind # "list")
  => /\ dpc \in {"call", "done"}
     /\ result = <<>>
     /\ dpc = "done" => dout = [kind |-> "ValueError", value |-> <<>>]

\* An empty YAML file (None) was refused
C9_Witness ==
  /\ dpc = "done"
  /\ dfile.ext = "yaml"
  /\ dfile.doc.kind = "null"
  /\ dout.kind = "ValueError"

\* The first record, from the second on, that lacks a key of the first
Lacking(d) == {i \in 2..Len(d) : ~HasFirstKeys(d, i)}
FirstLacking(d) == CHOOSE i \in Lacking(d) : \A m \in Lacking(d) : i <= m

\* C10: in a JSON or YAML sequence of mappings, let record i >= 2 be the
\* first that lacks a key of the first record.  The call raises KeyError
\* while flattening record i: the records before i have been flattened
\* without error, no later record is processed, and nothing is returned.
C10_LateKeyError ==
  LET d == RecordsOf(dfile)
  IN (/\ dfile.ext \in {"json", "yaml"}
      /\ AllMaps(d)
      /\ Lacking(d) # {})
     => /\ dpc # "return"
        /\ dpc = "loop" => /\ idx <= FirstLacking(d)
                           /\ dout.kind = "none"
        /\ dpc \in {"loop", "done"} =>
             /\ Len(result) = idx - 1
             /\ \A m \in 1..Len(result) : result[m] = TupleOf(d[m], keys).value
        /\ dpc = "done" => /\ dout = [kind |-> "KeyError", value |-> <<>>]
                           /\ idx = FirstLacking(d)

\* The second of three records lacked a key: one tuple had been built, the
\* third record was never reached
C10_Witness ==
  /\ dpc = "done"
  /\ dfile.ext = "json"
  /\ dout.kind = "KeyError"
  /\ Len(data) = 3
  /\ idx = 2
  /\ Len(result) = 1
  /\ AllMaps(data)
\* The first existing file of the search order of an uncached call: of the
\* environment tier if that has a file, else of the tier fallen back to
FirstFound(f, p) == Earliest(f, SearchedTier(f, p))

\* C14 (as claimed): when the first existing file of the search order is
\* malformed, an uncached call fails with a parse failure that carries that
\* file's path; no later extension and no file of another tier is tested or
\* opened, and nothing is cached.
C14_ParseFailureTagged ==
  [][\A p \in Pairs :
       (/\ IsLoad(p)
        /\ ~InCache(Key(p[1], p[2]), config_cache)
        /\ Present(fs, SearchedTier(fs, p)) # {}
        /\ fs[FirstFound(fs, p)] = Bad)
       => /\ last'.outcome = "ParseError"
          /\ last'.msg = FirstFound(fs, p)
          /\ last'.opened = <<FirstFound(fs, p)>>
          /\ last'.checked[Len(last'.checked)] = FirstFound(fs, p)
          /\ \A i \in 1..Len(last'.checked) :
                last'.checked[i][1] = p[1] => SearchedTier(fs, p) = p[1]
          /\ config_cache' = config_cache]_vars

\* C14 (amended): in that case the call logs an error naming the file's
\* path and fails with the parser's own exception, which names the path for
\* a .yaml/.yml file and names no file for a .json file; no later extension
\* and no file of another tier is tested or opened, and nothing is cached.
C14_ParseFailurePropagates ==
  [][\A p \in Pairs :
       (/\ IsLoad(p)
        /\ ~InCache(Key(p[1], p[2]), config_cache)
        /\ Present(fs, SearchedTier(fs, p)) # {}
        /\ fs[FirstFound(fs, p)] = Bad)
       => /\ last'.outcome = "ParseError"
          /\ last'.logged = FirstFound(fs, p)
          /\ IF FirstFound(fs, p)[2] = "json"
               THEN last'.msg = <<>>
             ELSE last'.msg = FirstFound(fs, p)
          /\ last'.opened = <<FirstFound(fs, p)>>
          /\ last'.checked[Len(last'.checked)] = FirstFound(fs, p)
          /\ \A i \in 1..Len(last'.checked) :
                last'.checked[i][1] = p[1] => SearchedTier(fs, p) = p[1]
          /\ config_cache' = config_cache]_vars

\* A call for a non-default environment failed on a malformed file of the
\* environment tier while well-formed files of a later extension and of the
\* default tier existed
C14_Witness ==
  /\ last.outcome = "ParseError"
  /\ last.environment # Default
  /\ last.opened = <<<<Key(last.config_name, last.environment), "yaml">>>>
  /\ fs[<<Key(last.config_name, last.environment), "yml">>] \in Mappings
  /\ fs[<<last.config_name, "yaml">>] \in Mappings
  /\ config_cache = <<>>

C16_EnvironmentFileWins ==
  [][\A p \in Pairs :
       (/\ IsLoad(p)
        /\ ~InCache(Key(p[1], p[2]), config_cache)
        /\ Present(fs, Key(p[1], p[2])) # {}
        /\ fs[Earliest(fs, Key(p[1], p[2]))] # Bad)
       => /\ last'.outcome = "return"
          /\ heap'[last'.ref].data =
                LoadYaml(fs[Earliest(fs, Key(p[1], p[2]))])
          /\ last'.opened = <<Earliest(fs, Key(p[1], p[2]))>>]_vars

\* C17 (as claimed): every returned value and every cached value is a
\* mapping, the parsed content of one file.
C17_AlwaysMapping ==
  /\ last.outcome = "return" => heap[last.ref].data \in Mappings
  /\ \A k \in DOMAIN config_cache : heap[config_cache[k]].data \in Mappings
  /\ \A p \in DOMAIN loaded : Len(loaded[p].from) = 2
\* C18 (as claimed): a JSON or YAML file whose top level is a sequence with
\* an element that is not a mapping, in first or later position, fails with
\* the ValueError raised for a top level that is not a sequence.
C18_NonMappingRejected ==
  (/\ dfile.ext \in {"json", "yaml"}
   /\ dfile.doc.kind = "list"
   /\ ~AllMaps(dfile.doc.elems)
   /\ dpc = "done")
  => dout = [kind |-> "ValueError", value |-> <<>>]
\* The resolved configuration of an accessor call has a usable base_url:
\* here, the mapping whose base_url is a string
Usable(content) == content = "M1"

\* C12 (as claimed): each accessor call is a load_config call for its fixed
\* name (same cache, same files tested and opened, same outcome), and
\* get_environment_url delivers the base_url of the returned configuration,
\* or the empty string when that has no usable base_url.
C12_Accessors ==
  [][\A e \in Envs :
       /\ (api' = "get_browser_config" /\ IsLoad(<<BrowserConfigName, e>>))
            => DoLoadConfig(<<"browser">>, e)
       /\ (api' = "get_test_config" /\ IsLoad(<<TestConfigName, e>>))
            => DoLoadConfig(<<"test">>, e)
       /\ (api' = "get_environment_url"
             /\ IsLoad(<<EnvironmentConfigName, e>>))
            => /\ DoLoadConfig(<<"environment">>, e)
               /\ IF last'.outcome # "return"
                    THEN url'.kind = last'.outcome
                  ELSE /\ url'.kind = "return"
                       /\ url'.value =
                            IF Usable(heap'[last'.ref].data)
                              THEN "u1" ELSE ""]_vars
\* Both configurations of an environment resolve to a document
ConfigLoads(f, environment) ==
  \A n \in {BrowserConfigName, TestConfigName} :
     Resolve(f, n, environment).data \notin {None, ParseError}

BrowserCreated ==
  /\ mtrace # <<>>
  /\ mtrace[Len(mtrace)] = Called("create_browser", "return")

\* C13: main() always ends with exit code 0 or 1 and never with an
\* exception: 0 exactly when the configurations (if loaded at all) loaded
\* and the browser was created, 1 in every other case.
C13_ExitCode ==
  mpc = "done" =>
    /\ mexit \in {"0", "1"}
    /\ mexit = "0" <=>
          /\ margs.config \/ ConfigLoads(fs, margs.env)
          /\ BrowserCreated

\* Both configurations loaded, the browser type was unsupported, and
\* main() ended with code 1
C13_Witness ==
  /\ mpc = "done"
  /\ mexit = "1"
  /\ Len(mtrace) = 3
  /\ mtrace[3] = Called("create_browser", "ValueError")
\* C19: when both threads are done, both ended the same way; if they
\* returned, the two values are equal in content, the cache holds exactly
\* the entry of the key, bound to one of the two returned objects, and its
\* content is what a lone call would have loaded from the files; if they
\* failed the cache is empty.
C19_RaceBenign ==
  (\A t \in Threads : rpc[t] = "done") =>
    LET r == Resolve(fs, rlocal[1].config_name, rlocal[1].environment)
    IN IF r.data \in {None, ParseError}
         THEN /\ \A t \in Threads :
                   rret[t].outcome =
                     IF r.data = None THEN "FileNotFoundError"
                     ELSE "ParseError"
              /\ config_cache = <<>>
       ELSE /\ \A t \in Threads :
                 /\ rret[t].outcome = "return"
                 /\ heap[rret[t].ref].data = r.data
            /\ DOMAIN config_cache = {CacheKeyOf(1)}
            /\ config_cache[CacheKeyOf(1)] \in {rret[t].ref : t \in Threads}
            /\ reads[PairOf(1)] <= 2 * Len(r.opened)

\* Both threads missed the cache, each read the file and each wrote the
\* cache: two objects of equal content, the cache bound to the one that
\* was built first and stored last
C19_Witness ==
  /\ \A t \in Threads : rpc[t] = "done" /\ rret[t].outcome = "return"
  /\ rret[1].ref # rret[2].ref
  /\ reads[PairOf(1)] = 2
  /\ config_cache[CacheKeyOf(1)] = rret[1].ref
  /\ rret[1].ref = 1
\* The lower-cased part after the last dot of a file name, if any
Suffix(file_name) ==
  IF Len(file_name) >= 2 THEN Lower(file_name[Len(file_name)]) ELSE "none"

\* C11: load_test_data goes through the CSV loader for a name ending in
\* .csv, the JSON loader for .json and the YAML loader for .yaml or .yml,
\* in any letter case; for every other name it raises ValueError naming the
\* file without having tested or opened any path, whether the file exists
\* or not.
C11_DispatchOnSuffix ==
  fcall.fn = "load_test_data" =>
    IF Suffix(fcall.name) = "csv" THEN fout.loader = "csv"
    ELSE IF Suffix(fcall.name) = "json" THEN fout.loader = "json"
    ELSE IF Suffix(fcall.name) \in {"yaml", "yml"} THEN fout.loader = "yaml"
    ELSE /\ fout.kind = "ValueError"
         /\ fout.msg = fcall.name
         /\ fout.loader = "none"
         /\ facc = <<>>

\* x.txt exists and was refused without being looked for
C11_Witness ==
  /\ fcall = [fn |-> "load_test_data", name |-> <<"x", "txt">>]
  /\ ddir[<<"x", "txt">>] # Absent
  /\ fout.kind = "ValueError"
  /\ facc = <<>>

\* C20: load_yaml of a base name without extension loads base.yaml when it
\* exists, else base.yml when that exists, else raises FileNotFoundError;
\* load_csv and load_json raise FileNotFoundError when the path they
\* resolve to (the name, with the extension appended unless it ends with
\* it) does not exist, and load that file otherwise.
C20_YamlThenYml ==
  /\ (fcall.fn = "load_yaml" /\ fcall.name = X) =>
        IF ddir[<<"x", "yaml">>] # Absent
          THEN /\ fout.kind = "return"
               /\ fout.path = <<"x", "yaml">>
               /\ fout.content = ddir[<<"x", "yaml">>]
        ELSE IF ddir[<<"x", "yml">>] # Absent
          THEN /\ fout.kind = "return"
               /\ fout.path = <<"x", "yml">>
               /\ fout.content = ddir[<<"x", "yml">>]
        ELSE fout.kind = "FileNotFoundError"
  /\ \A e \in {"csv", "json"} :
        fcall.fn = "load_" \o e =>
          LET path == IF Suffix(fcall.name) = e THEN fcall.name
                      ELSE Append(fcall.name, e)
          IN IF path \in DirNames /\ ddir[path] # Absent
               THEN fout.kind = "return" /\ fout.path = path
             ELSE fout.kind = "FileNotFoundError"

\* Both x.yaml and x.yml exist with different data and load_yaml("x")
\* loaded x.yaml
C20_Witness ==
  /\ fcall = [fn |-> "load_yaml", name |-> X]
  /\ ddir[<<"x", "yaml">>] = "A"
  /\ ddir[<<"x", "yml">>] = "B"
  /\ fout.content = "A"
\* The steps main() has made, in order
StepsMade == [i \in 1..Len(mtrace) |-> mtrace[i].step]
IsPrefix(q, r) == Len(q) <= Len(r) /\ \A i \in 1..Len(q) : q[i] = r[i]

C22_NamedFileRead ==
  (/\ fcall.fn = "load_test_data"
   /\ fcall.name \in {<<"x", "yml">>, <<"x", "yaml">>})
  => IF ddir[fcall.name] # Absent
       THEN /\ fout.kind = "return"
            /\ fout.path = fcall.name
            /\ fout.content = ddir[fcall.name]
            /\ \A i \in 1..Len(facc) :
                  facc[i].op = "open" => facc[i].path = fcall.name
     ELSE fout.kind = "FileNotFoundError"
\* C23: a load_config call that raises leaves the cache and the cached
\* objects as they were; one that returns leaves every other entry as it
\* was and has its own key cached afterwards; the cached keys are exactly
\* those of the pairs that have loaded; and a call for an uncached key,
\* failed before or not, tests the files again.
C23_FailuresNotCached ==
  [][/\ DOMAIN config_cache =
          {Key(p[1], p[2]) : p \in DOMAIN loaded}
     /\ \A p \in Pairs :
          IsLoad(p) =>
            /\ last'.outcome \in {"FileNotFoundError", "ParseError"} =>
                  /\ config_cache' = config_cache
                  /\ heap' = heap
                  /\ ~InCache(Key(p[1], p[2]), config_cache')
            /\ last'.outcome = "return" =>
                  /\ DOMAIN config_cache' =
                       DOMAIN config_cache \cup {Key(p[1], p[2])}
                  /\ \A k \in DOMAIN config_cache :
                        /\ config_cache'[k] = config_cache[k]
                        /\ heap'[config_cache[k]] = heap[config_cache[k]]
                  /\ config_cache'[Key(p[1], p[2])] = last'.ref
            /\ ~InCache(Key(p[1], p[2]), config_cache) =>
                  /\ ~last'.hit
                  /\ Len(last'.checked) >= 1]_vars

\* Two calls for one pair both failed on a malformed file, the second
\* having opened the file again, and nothing is cached
C23_Witness ==
  /\ calls = 2
  /\ last.outcome = "ParseError"
  /\ Len(last.opened) = 1
  /\ reads[LastPair] = 2
  /\ config_cache = <<>>
\* C21 (as claimed): over files that do not change, every value load_config
\* returns for a pair is what an uncached resolution of that pair gives,
\* and no two pairs are ever handed the same cached object.
C21_PairsNeverShare ==
  /\ last.outcome = "return" =>
        heap[last.ref].data =
          Resolve(fs, last.config_name, last.environment).data
  /\ \A p, q \in DOMAIN loaded : p # q => loaded[p].ref # loaded[q].ref
\* The calls made on an element, by position in cbtrace
CallsOn(e) == {i \in 1..Len(cbtrace) : cbtrace[i].element = e}
Target(i) == cbtrace[i].op = "check"
LastOn(e) == CHOOSE i \in CallsOn(e) : \A j \in CallsOn(e) : j <= i

\* C24: every call clicks exactly when the state it finds differs from its
\* target; an element that has been called is in the state its last call
\* aimed at; a call that repeats the one before it on the same element does
\* not click; and an element has received as many clicks as calls on it
\* clicked.
C24_CheckboxIdempotent ==
  /\ \A i \in 1..Len(cbtrace) :
        cbtrace[i].clicked <=> cbtrace[i].before # Target(i)
  /\ \A e \in Elements :
        /\ CallsOn(e) # {} => selected[e] = Target(LastOn(e))
        /\ clicks[e] = Cardinality({i \in CallsOn(e) : cbtrace[i].clicked})
        /\ \A i, j \in CallsOn(e) :
              (/\ i < j
               /\ cbtrace[i].op = cbtrace[j].op
               /\ \A k \in CallsOn(e) : ~(i < k /\ k < j))
              => ~cbtrace[j].clicked

\* An unselected checkbox was checked (one click), checked again (no
\* click) and unchecked (one click)
C24_Witness ==
  /\ Len(cbtrace) = 3
  /\ cbtrace[1] = [op |-> "check", element |-> "e1", before |-> FALSE,
                    clicked |-> TRUE]
  /\ cbtrace[2] = [op |-> "check", element |-> "e1", before |-> TRUE,
                    clicked |-> FALSE]
  /\ cbtrace[3].op = "uncheck" /\ cbtrace[3].element = "e1"
  /\ ~selected["e1"]
  /\ clicks["e1"] = 2
\* The handlers of one kind on the root logger
OfKind(kind) == {i \in 1..Len(handlers) : handlers[i].kind = kind}

C26_Repeatable ==
  (hcalls >= 1 /\ hgiven.duration.type = "num") =>
    /\ hlast.outcome = "return"
    /\ hlast.duration = FormatDuration(hgiven.duration).v
    /\ hresults.duration = hgiven.duration
====
